---- MODULE Spec2Model ----
(***************************************************************************)
(* Customer Data Platform: the entity-resolution engine of                 *)
(* core/matcher.py (CustomerMatcher) and core/cdp.py                       *)
(* (CustomerDataPlatform), over the record store of models/database.py.    *)
(*                                                                         *)
(* A Python str is a sequence of one-character strings; None is the        *)
(* distinguished value None.  A float score is the exact rational <<n, d>> *)
(* in lowest terms (d > 0); the field weights are in hundredths.           *)
(***************************************************************************)
EXTENDS Integers, Sequences, FiniteSets, TLC

VARIABLES store, history, match_threshold, clock, call, result, probe,
          import_result, raised, workers

vars == <<store, history, match_threshold, clock, call, result, probe,
          import_result, raised, workers>>

(***************************************************************************)
(* Strings                                                                 *)
(***************************************************************************)
None == <<"None">>

Digits == {"0", "1", "2", "3", "4", "5", "6", "7", "8", "9"}

Whitespace == {" "}

\* str.lower() on one character
LowerChar(c) ==
  CASE c = "A" -> "a"
    [] c = "B" -> "b"
    [] c = "N" -> "n"
    [] c = "X" -> "x"
    [] OTHER -> c

Lower(s) == [i \in 1..Len(s) |-> LowerChar(s[i])]

RECURSIVE LStrip(_)
LStrip(s) ==
  IF s # <<>> /\ Head(s) \in Whitespace THEN LStrip(Tail(s)) ELSE s

RECURSIVE RStrip(_)
RStrip(s) ==
  IF s # <<>> /\ s[Len(s)] \in Whitespace
    THEN RStrip(SubSeq(s, 1, Len(s) - 1))
    ELSE s

\* str.strip()
Strip(s) == RStrip(LStrip(s))

\* re.sub(r'\s+', ' ', s): every run of whitespace becomes one space
RECURSIVE CollapseWs(_)
CollapseWs(s) ==
  IF s = <<>> THEN <<>>
  ELSE IF Head(s) \in Whitespace
    THEN <<" ">> \o CollapseWs(LStrip(s))
    ELSE <<Head(s)>> \o CollapseWs(Tail(s))

\* Python truthiness of an Optional[str]: "not x" is TRUE for None and ""
Truthy(x) == x # None /\ x # <<>>

\* matcher.py:20-27
normalize_text(text) ==
  IF ~Truthy(text) THEN <<>> ELSE CollapseWs(Strip(Lower(text)))

\* re.sub(r'[^\d]', '', s)
OnlyDigits(s) == SelectSeq(s, LAMBDA c : c \in Digits)

\* matcher.py:29-34
normalize_document(doc) == IF ~Truthy(doc) THEN <<>> ELSE OnlyDigits(doc)

\* matcher.py:36-41
normalize_phone(phone) == IF ~Truthy(phone) THEN <<>> ELSE OnlyDigits(phone)

\* str.split(): the maximal runs of non-whitespace characters, in order
RECURSIVE SplitFrom(_, _, _)
SplitFrom(s, cur, acc) ==
  IF s = <<>>
    THEN IF cur = <<>> THEN acc ELSE Append(acc, cur)
  ELSE IF Head(s) \in Whitespace
    THEN SplitFrom(Tail(s), <<>>, IF cur = <<>> THEN acc ELSE Append(acc, cur))
    ELSE SplitFrom(Tail(s), Append(cur, Head(s)), acc)

Split(s) == SplitFrom(s, <<>>, <<>>)

\* SQL  hay LIKE '%needle%'  on a non-NULL column value (no wildcard in needle)
Contains(hay, needle) ==
  \E i \in 1..(Len(hay) - Len(needle) + 1) :
    SubSeq(hay, i, i + Len(needle) - 1) = needle

(***************************************************************************)
(* Exact rationals standing for the floats                                 *)
(***************************************************************************)
RECURSIVE Gcd(_, _)
Gcd(a, b) == IF b = 0 THEN a ELSE Gcd(b, a % b)

Abs(n) == IF n < 0 THEN -n ELSE n

Rat(n, d) ==
  LET g == Gcd(Abs(n), Abs(d))
      s == IF d < 0 THEN -1 ELSE 1
  IN  IF n = 0 THEN <<0, 1>> ELSE <<(s * n) \div g, (s * d) \div g>>

RAdd(p, q) == Rat(p[1] * q[2] + q[1] * p[2], p[2] * q[2])
RMul(p, q) == Rat(p[1] * q[1], p[2] * q[2])
RDiv(p, q) == Rat(p[1] * q[2], p[2] * q[1])
RLess(p, q) == p[1] * q[2] < q[1] * p[2]
RLeq(p, q) == p[1] * q[2] <= q[1] * p[2]
RMax(p, q) == IF RLess(p, q) THEN q ELSE p

Zero == <<0, 1>>
One == <<1, 1>>

(***************************************************************************)
(* config.py                                                               *)
(***************************************************************************)
\* config.py:13-15
MATCH_THRESHOLD == <<7, 10>>
SIMILARITY_THRESHOLD == <<8, 10>>
LOW_SIMILARITY_THRESHOLD == <<3, 10>>

\* config.py:18-25, in hundredths
FIELD_WEIGHTS ==
  [documento |-> <<40, 100>>, email |-> <<25, 100>>, telefone |-> <<20, 100>>,
   nome |-> <<5, 100>>, endereco |-> <<5, 100>>, data_nascimento |-> <<5, 100>>]

\* config.py:33-36, in the order the merge walks them
VALID_CUSTOMER_FIELDS ==
  <<"nome", "email", "documento", "telefone", "endereco",
    "cidade", "estado", "cep", "data_nascimento", "profissao">>

Fields == {VALID_CUSTOMER_FIELDS[i] : i \in DOMAIN VALID_CUSTOMER_FIELDS}

(***************************************************************************)
(* difflib.SequenceMatcher(None, a, b).ratio(), no junk, len < 200         *)
(***************************************************************************)
\* the length of the longest common block of a and b
LongestLen(a, b) ==
  LET Ks == {k \in 0..Len(a) :
               k = 0 \/ \E i \in 1..(Len(a) - k + 1), j \in 1..(Len(b) - k + 1) :
                          SubSeq(a, i, i + k - 1) = SubSeq(b, j, j + k - 1)}
  IN  CHOOSE k \in Ks : \A m \in Ks : m <= k

\* find_longest_match: of the longest blocks the one starting earliest in a,
\* and of those the one starting earliest in b; <<i, j, k>>
FirstInA(a, b, k) ==
  LET Is == {i \in 1..(Len(a) - k + 1) :
               \E j \in 1..(Len(b) - k + 1) :
                 SubSeq(a, i, i + k - 1) = SubSeq(b, j, j + k - 1)}
  IN  CHOOSE i \in Is : \A m \in Is : i <= m

FirstInB(a, b, k, i0) ==
  LET Js == {j \in 1..(Len(b) - k + 1) :
               SubSeq(a, i0, i0 + k - 1) = SubSeq(b, j, j + k - 1)}
  IN  CHOOSE j \in Js : \A m \in Js : j <= m

BlockAt(a, b, k, i0) == <<i0, FirstInB(a, b, k, i0), k>>

BlockOfLen(a, b, k) ==
  IF k = 0 THEN <<1, 1, 0>> ELSE BlockAt(a, b, k, FirstInA(a, b, k))

find_longest_match(a, b) == BlockOfLen(a, b, LongestLen(a, b))

\* get_matching_blocks: the total size of the blocks found by recursing to the
\* left and to the right of the longest block
RECURSIVE MatchedChars(_, _)
MatchedAround(a, b, i, j, k) ==
  IF k = 0 THEN 0
  ELSE k + MatchedChars(SubSeq(a, 1, i - 1), SubSeq(b, 1, j - 1))
         + MatchedChars(SubSeq(a, i + k, Len(a)), SubSeq(b, j + k, Len(b)))

MatchedAroundBlock(a, b, m) == MatchedAround(a, b, m[1], m[2], m[3])

MatchedChars(a, b) ==
  IF a = <<>> \/ b = <<>> THEN 0
  ELSE MatchedAroundBlock(a, b, find_longest_match(a, b))

\* matcher.py:43-48
similarity_score(str1, str2) ==
  IF ~Truthy(str1) \/ ~Truthy(str2) THEN Zero
  ELSE Rat(2 * MatchedChars(str1, str2), Len(str1) + Len(str2))

(***************************************************************************)
(* core/matcher.py: the field rules.  A conflict map is the sequence of    *)
(* its items <<field, value 1, value 2>> in insertion order.               *)
(***************************************************************************)
\* matcher.py:15-18, CustomerMatcher() as the platform constructs it
weights == FIELD_WEIGHTS

ConflictKeys(conflicts) == {conflicts[i][1] : i \in DOMAIN conflicts}

\* _check_document_match reporting no conflict for unequal documents
_check_document_match_NoConflict(doc1, doc2) ==
  IF ~Truthy(doc1) \/ ~Truthy(doc2) THEN <<Zero, <<>>>>
  ELSE IF normalize_document(doc1) = normalize_document(doc2)
          /\ normalize_document(doc1) # <<>>
    THEN <<weights.documento, <<>>>>
  ELSE <<Zero, <<>>>>

\* matcher.py:50-66; <<score, conflicts>>
_check_document_match(doc1, doc2) ==
  IF ~Truthy(doc1) \/ ~Truthy(doc2) THEN <<Zero, <<>>>>
  ELSE LET normalized_doc1 == normalize_document(doc1)
           normalized_doc2 == normalize_document(doc2)
       IN  IF normalized_doc1 = normalized_doc2 /\ normalized_doc1 # <<>>
             THEN <<weights.documento, <<>>>>
           ELSE IF normalized_doc1 # <<>> /\ normalized_doc2 # <<>>
                   /\ normalized_doc1 # normalized_doc2
             THEN <<Zero, <<<<"documento", normalized_doc1, normalized_doc2>>>>>>
           ELSE <<Zero, <<>>>>

\* matcher.py:68-76
_check_email_match(email1, email2) ==
  IF ~Truthy(email1) \/ ~Truthy(email2) THEN Zero
  ELSE IF Lower(email1) = Lower(email2) THEN weights.email
  ELSE Zero

\* matcher.py:78-95
NameRule(name1, name2, similarity) ==
  IF RLess(SIMILARITY_THRESHOLD, similarity)
    THEN <<RMul(weights.nome, similarity), <<>>>>
  ELSE IF RLess(similarity, LOW_SIMILARITY_THRESHOLD)
    THEN <<Zero, <<<<"nome", name1, name2>>>>>>
  ELSE <<Zero, <<>>>>

_check_name_match(name1, name2) ==
  IF ~Truthy(name1) \/ ~Truthy(name2) THEN <<Zero, <<>>>>
  ELSE NameRule(name1, name2,
                similarity_score(normalize_text(name1), normalize_text(name2)))

\* matcher.py:97-112
_check_phone_match(phone1, phone2) ==
  IF ~Truthy(phone1) \/ ~Truthy(phone2) THEN <<Zero, <<>>>>
  ELSE LET normalized_phone1 == normalize_phone(phone1)
           normalized_phone2 == normalize_phone(phone2)
       IN  IF normalized_phone1 = normalized_phone2 /\ normalized_phone1 # <<>>
             THEN <<weights.telefone, <<>>>>
           ELSE IF normalized_phone1 # <<>> /\ normalized_phone2 # <<>>
                   /\ normalized_phone1 # normalized_phone2
             THEN <<Zero, <<<<"telefone", normalized_phone1, normalized_phone2>>>>>>
           ELSE <<Zero, <<>>>>

\* matcher.py:114-126
_check_birthdate_match(date1, date2) ==
  IF ~Truthy(date1) \/ ~Truthy(date2) THEN <<Zero, <<>>>>
  ELSE IF date1 = date2 THEN <<weights.data_nascimento, <<>>>>
  ELSE <<Zero, <<<<"data_nascimento", date1, date2>>>>>>

\* matcher.py:128-141
AddressRule(similarity) ==
  IF RLess(<<7, 10>>, similarity) THEN RMul(weights.endereco, similarity) ELSE Zero

_check_address_match(addr1, addr2) ==
  IF ~Truthy(addr1) \/ ~Truthy(addr2) THEN Zero
  ELSE AddressRule(similarity_score(normalize_text(addr1), normalize_text(addr2)))

\* WeightIfBoth counting a field that only one record has
WeightIfEither(v1, v2, w) == IF Truthy(v1) \/ Truthy(v2) THEN w ELSE Zero

\* matcher.py:157-158, 163-164, 170-171, 179-180, 192-193: the weight of a
\* field enters total_weight when both values are truthy
WeightIfBoth(v1, v2, w) == IF Truthy(v1) /\ Truthy(v2) THEN w ELSE Zero

\* matcher.py:156-193: the fields whose weight enters total_weight; the
\* birth-date block (182-187) adds its score and no weight
total_weight(customer1, customer2) ==
  RAdd(WeightIfBoth(customer1.documento, customer2.documento, weights.documento),
  RAdd(WeightIfBoth(customer1.email, customer2.email, weights.email),
  RAdd(WeightIfBoth(customer1.nome, customer2.nome, weights.nome),
  RAdd(WeightIfBoth(customer1.telefone, customer2.telefone, weights.telefone),
       WeightIfBoth(customer1.endereco, customer2.endereco, weights.endereco)))))

\* PenalizeConflicts leaving the score as it is
PenalizeConflicts_Never(final_score, all_conflicts) == final_score

\* matcher.py:198-200
PenalizeConflicts(final_score, all_conflicts) ==
  IF Len(all_conflicts) > 1 THEN RMul(final_score, <<1, 2>>) ELSE final_score

\* matcher.py:195-196
FinalScore(total_score, tw) ==
  IF RLess(Zero, tw) THEN RDiv(total_score, tw) ELSE Zero

\* matcher.py:195-202
Finish(total_score, tw, all_conflicts) ==
  <<PenalizeConflicts(FinalScore(total_score, tw), all_conflicts), all_conflicts>>

\* Accumulate without the early return of matcher.py:153-154
Accumulate_NoEarlyReturn(doc, email_score, name, phone, birthdate, address_score, tw) ==
  Finish(RAdd(doc[1], RAdd(email_score, RAdd(name[1],
           RAdd(phone[1], RAdd(birthdate[1], address_score))))),
         tw,
         doc[2] \o name[2] \o phone[2] \o birthdate[2])

\* matcher.py:153-202, from the results of the six field rules
Accumulate(doc, email_score, name, phone, birthdate, address_score, tw) ==
  IF doc[2] # <<>> THEN <<Zero, doc[2]>>
  ELSE Finish(RAdd(doc[1], RAdd(email_score, RAdd(name[1],
                RAdd(phone[1], RAdd(birthdate[1], address_score))))),
              tw,
              name[2] \o phone[2] \o birthdate[2])

\* matcher.py:143-202; <<score, conflicts>>
calculate_match_score(customer1, customer2) ==
  Accumulate(_check_document_match(customer1.documento, customer2.documento),
             _check_email_match(customer1.email, customer2.email),
             _check_name_match(customer1.nome, customer2.nome),
             _check_phone_match(customer1.telefone, customer2.telefone),
             _check_birthdate_match(customer1.data_nascimento,
                                    customer2.data_nascimento),
             _check_address_match(customer1.endereco, customer2.endereco),
             total_weight(customer1, customer2))

(***************************************************************************)
(* core/cdp.py over models/database.py.  The customers table is the        *)
(* sequence store, in insertion order, which is the order SQLite returns   *)
(* the rows of an unordered query in; customer_history is the sequence     *)
(* history.  A CustomerData is a function from Fields to values.           *)
(***************************************************************************)
\* schemas.py:9-21, CustomerData()
EmptyData == [f \in Fields |-> None]

\* "value is not None and str(value).strip()": cdp.py:180, schemas.py:28
Present(value) == value # None /\ Strip(value) # <<>>

\* schemas.py:26-29
is_empty(customer_data) == \A f \in Fields : ~Present(customer_data[f])

\* cdp.py:37-50
_model_to_customer_data(model) == model.data

\* session.query(CustomerModel).filter(P).all()
QueryAll(st, P(_)) == SelectSeq(st, P)

\* cdp.py:87-94
DocLike(st, doc_normalized) ==
  IF doc_normalized # <<>>
    THEN QueryAll(st, LAMBDA m : m.data.documento # None
                                 /\ Contains(m.data.documento, doc_normalized))
    ELSE <<>>

DocMatches(st, customer_data) ==
  IF Truthy(customer_data.documento)
    THEN DocLike(st, normalize_document(customer_data.documento))
    ELSE <<>>

\* cdp.py:96-101; SQL = on text is case-sensitive
EmailMatches(st, customer_data) ==
  IF Truthy(customer_data.email)
    THEN QueryAll(st, LAMBDA m : m.data.email = customer_data.email)
    ELSE <<>>

\* cdp.py:103-113; ilike compares the lower-cased column with the lower-cased pattern
RECURSIVE NamePartMatches(_, _)
NameLike(st, part) ==
  IF Len(part) > 2
    THEN QueryAll(st, LAMBDA m : m.data.nome # None
                                 /\ Contains(Lower(m.data.nome), Lower(part)))
    ELSE <<>>

NamePartMatches(st, nome_parts) ==
  IF nome_parts = <<>> THEN <<>>
  ELSE NameLike(st, Head(nome_parts)) \o NamePartMatches(st, Tail(nome_parts))

\* "".split() is the empty list, so line 106 needs no case of its own
NameMatches(st, customer_data) ==
  IF Truthy(customer_data.nome)
    THEN NamePartMatches(st, Split(normalize_text(customer_data.nome)))
    ELSE <<>>

\* cdp.py:115-122
PhoneLike(st, tel_normalized) ==
  IF tel_normalized # <<>>
    THEN QueryAll(st, LAMBDA m : m.data.telefone # None
                                 /\ Contains(m.data.telefone, tel_normalized))
    ELSE <<>>

PhoneMatches(st, customer_data) ==
  IF Truthy(customer_data.telefone)
    THEN PhoneLike(st, normalize_phone(customer_data.telefone))
    ELSE <<>>

\* cdp.py:124-132: drop the later occurrences of an id, keeping the order
RECURSIVE UniqueById(_, _)
UniqueById(candidates, seen_ids) ==
  IF candidates = <<>> THEN <<>>
  ELSE IF Head(candidates).id \in seen_ids
    THEN UniqueById(Tail(candidates), seen_ids)
    ELSE <<Head(candidates)>>
           \o UniqueById(Tail(candidates), seen_ids \cup {Head(candidates).id})

\* cdp.py:80-135
_find_potential_matches_in_db(st, customer_data) ==
  UniqueById(DocMatches(st, customer_data) \o EmailMatches(st, customer_data)
               \o NameMatches(st, customer_data) \o PhoneMatches(st, customer_data),
             {})

\* BelowThreshold discarding no candidate
BelowThreshold_Never(score, threshold) == FALSE

\* cdp.py:147-148
BelowThreshold(score, threshold) == RLess(score, threshold)

\* cdp.py:143-164: the MatchResult of each candidate that reaches the threshold
\* cdp.py:150-164, schemas.py:31-38
MatchResult(customer_id, score, conflicts) ==
  [customer_id |-> customer_id,
   score |-> score,
   conflicts |-> conflicts,
   is_safe_match |-> (conflicts = <<>>),
   reason |-> IF conflicts = <<>> THEN "Match seguro" ELSE "Conflitos detectados"]

\* cdp.py:145-164 for one candidate: nothing, or its MatchResult
ScoreOne(customer_model, sc, threshold) ==
  IF BelowThreshold(sc[1], threshold) THEN <<>>
  ELSE <<MatchResult(customer_model.id, sc[1], sc[2])>>

\* cdp.py:143-164: the MatchResult of each candidate that reaches the threshold
RECURSIVE ScoreCandidates(_, _, _)
ScoreCandidates(potential_matches, customer_data, threshold) ==
  IF potential_matches = <<>> THEN <<>>
  ELSE ScoreOne(Head(potential_matches),
                calculate_match_score(customer_data,
                                      _model_to_customer_data(Head(potential_matches))),
                threshold)
         \o ScoreCandidates(Tail(potential_matches), customer_data, threshold)

\* cdp.py:166: list.sort(key=score, reverse=True) is stable
RECURSIVE InsertByScore(_, _)
InsertByScore(sorted, m) ==
  IF sorted = <<>> THEN <<m>>
  ELSE IF RLess(Head(sorted).score, m.score)
    THEN <<m>> \o sorted
    ELSE <<Head(sorted)>> \o InsertByScore(Tail(sorted), m)

RECURSIVE SortByScore(_, _)
SortByScore(matches, sorted) ==
  IF matches = <<>> THEN sorted
  ELSE SortByScore(Tail(matches), InsertByScore(sorted, Head(matches)))

\* cdp.py:137-167
_find_matching_customers(st, customer_data, threshold) ==
  SortByScore(ScoreCandidates(_find_potential_matches_in_db(st, customer_data),
                              customer_data, threshold),
              <<>>)

\* IncomingWins without the strip() of cdp.py:180
IncomingWins_NotNone(new_value) == new_value # None

\* cdp.py:180
IncomingWins(new_value) == Present(new_value)

\* cdp.py:181
Changed(existing_value, new_value) == existing_value # new_value

\* HistoryEntry with old_value and new_value exchanged
HistoryEntry_Swapped(now, field, old_value, new_value, source) ==
  [timestamp |-> now, field |-> field, old_value |-> new_value,
   new_value |-> old_value, source |-> source, confidence |-> One]

\* cdp.py:182-189, schemas.py:40-48
HistoryEntry(now, field, old_value, new_value, source) ==
  [timestamp |-> now, field |-> field, old_value |-> old_value,
   new_value |-> new_value, source |-> source, confidence |-> One]

\* MergedValue storing the stripped incoming value
MergedValue_Stripped(existing_value, new_value) ==
  IF Present(new_value) THEN Strip(new_value) ELSE existing_value

\* cdp.py:190-194: the merged value of one field
MergedValue(existing_value, new_value) ==
  IF IncomingWins(new_value) THEN new_value ELSE existing_value

\* cdp.py:177-194: one pass of the loop body
MergeField(field, existing_value, new_value, source, now, acc) ==
  [merged |-> [acc.merged EXCEPT ![field] = MergedValue(existing_value, new_value)],
   history |-> IF IncomingWins(new_value) /\ Changed(existing_value, new_value)
                 THEN Append(acc.history,
                             HistoryEntry(now, field, existing_value, new_value, source))
                 ELSE acc.history]

\* cdp.py:176-194: the loop over VALID_CUSTOMER_FIELDS from position i on
RECURSIVE MergeLoop(_, _, _, _, _, _)
MergeLoop(i, existing, new_data, source, now, acc) ==
  IF i > Len(VALID_CUSTOMER_FIELDS) THEN acc
  ELSE MergeLoop(i + 1, existing, new_data, source, now,
                 MergeField(VALID_CUSTOMER_FIELDS[i],
                            existing[VALID_CUSTOMER_FIELDS[i]],
                            new_data[VALID_CUSTOMER_FIELDS[i]],
                            source, now, acc))

\* cdp.py:169-196; [merged, history]
_merge_customer_data(existing, new_data, source, now) ==
  MergeLoop(1, existing, new_data, source, now,
            [merged |-> EmptyData, history |-> <<>>])

\* cdp.py:29-31: a fresh id; ids are handed out in creation order
_generate_id(st) == Len(st) + 1

\* cdp.py:216: 'customer_id': None
NoId == 0

\* cdp.py:262-270: the customer_history row of a HistoryEntry
HistoryModel(customer_id, hist_entry) ==
  [customer_id |-> customer_id,
   timestamp |-> hist_entry.timestamp,
   field |-> hist_entry.field,
   old_value |-> IF Truthy(hist_entry.old_value) THEN hist_entry.old_value ELSE None,
   new_value |-> IF Truthy(hist_entry.new_value) THEN hist_entry.new_value ELSE None,
   source |-> hist_entry.source,
   confidence |-> hist_entry.confidence]

\* AddSource without the membership test of cdp.py:256
AddSource_Always(existing_sources, source) == Append(existing_sources, source)

\* cdp.py:254-258
AddSource(existing_sources, source) ==
  IF \E i \in DOMAIN existing_sources : existing_sources[i] = source
    THEN existing_sources
    ELSE Append(existing_sources, source)

\* cdp.py:213: the best match is refused
Rejects(best_match, force_merge) == ~best_match.is_safe_match /\ ~force_merge

\* cdp.py:214-229
ConflictDetected(st, hist, best_match) ==
  [store |-> st, history |-> hist,
   result |-> [status |-> "conflict_detected", customer_id |-> NoId,
               action |-> "no_action", conflicts |-> best_match.conflicts,
               score |-> best_match.score, changes_made |-> 0]]

\* cdp.py:232-234: the position of the row with the given id
RowOf(st, customer_id) == CHOOSE i \in DOMAIN st : st[i].id = customer_id

\* UpdatedModel storing the latest score in place of the maximum
UpdatedModel_LatestScore(existing_model, merged, best_match, source, now) ==
  [existing_model EXCEPT
     !.data = merged,
     !.updated_at = now,
     !.confidence_score = best_match.score,
     !.sources = AddSource(existing_model.sources, source)]

\* cdp.py:248-258: the row after the merge
UpdatedModel(existing_model, merged, best_match, source, now) ==
  [existing_model EXCEPT
     !.data = merged,
     !.updated_at = now,
     !.confidence_score = RMax(existing_model.confidence_score, best_match.score),
     !.sources = AddSource(existing_model.sources, source)]

\* Updated reporting every merge as a safe merge without conflicts
Updated_AlwaysSafe(best_match, force_merge, changes_made) ==
  [status |-> "updated", customer_id |-> best_match.customer_id,
   action |-> "safe_merge",
   conflicts |-> <<>>,
   score |-> best_match.score,
   changes_made |-> changes_made]

\* cdp.py:275-285
Updated(best_match, force_merge, changes_made) ==
  [status |-> "updated", customer_id |-> best_match.customer_id,
   action |-> IF force_merge /\ ~best_match.is_safe_match
                THEN "forced_merge" ELSE "safe_merge",
   conflicts |-> IF ~best_match.is_safe_match THEN best_match.conflicts ELSE <<>>,
   score |-> best_match.score,
   changes_made |-> changes_made]

\* Persist putting the new history rows ahead of the stored ones
Persist_NewRowsFirst(st, hist, idx, best_match, m, source, force_merge, now) ==
  [store |-> [st EXCEPT ![idx] = UpdatedModel(st[idx], m.merged, best_match, source, now)],
   history |-> [i \in DOMAIN m.history |->
                  HistoryModel(best_match.customer_id, m.history[i])] \o hist,
   result |-> Updated(best_match, force_merge, Len(m.history))]

\* cdp.py:247-285: write the merge m into row idx, add its history rows, commit
Persist(st, hist, idx, best_match, m, source, force_merge, now) ==
  [store |-> [st EXCEPT ![idx] = UpdatedModel(st[idx], m.merged, best_match, source, now)],
   history |-> hist \o [i \in DOMAIN m.history |->
                          HistoryModel(best_match.customer_id, m.history[i])],
   result |-> Updated(best_match, force_merge, Len(m.history))]

\* cdp.py:242-245
MergeRow(st, hist, idx, best_match, customer_data, source, force_merge, now) ==
  Persist(st, hist, idx, best_match,
          _merge_customer_data(_model_to_customer_data(st[idx]), customer_data,
                               source, now),
          source, force_merge, now)

\* cdp.py:231-285: merge into the row of the best match and commit
MergeInto(st, hist, best_match, customer_data, source, force_merge, now) ==
  MergeRow(st, hist, RowOf(st, best_match.customer_id), best_match, customer_data,
           source, force_merge, now)

\* cdp.py:287-320: insert a new row and commit
CreateNew(st, hist, customer_data, source, now) ==
  [store |-> Append(st, [id |-> _generate_id(st), data |-> customer_data,
                         created_at |-> now, updated_at |-> now,
                         sources |-> <<source>>, confidence_score |-> One]),
   history |-> hist,
   result |-> [status |-> "created", customer_id |-> _generate_id(st),
               action |-> "new_customer", conflicts |-> <<>>,
               score |-> One, changes_made |-> 0]]

\* OnBestMatch with the merge of cdp.py:231-273 run ahead of the test of cdp.py:213
OnBestMatch_MergeFirst(st, hist, best_match, customer_data, source, force_merge, now) ==
  IF Rejects(best_match, force_merge)
    THEN [MergeInto(st, hist, best_match, customer_data, source, force_merge, now)
            EXCEPT !.result = ConflictDetected(st, hist, best_match).result]
    ELSE MergeInto(st, hist, best_match, customer_data, source, force_merge, now)

\* OnBestMatch creating a separate customer when the best match is refused
OnBestMatch_CreateOnConflict(st, hist, best_match, customer_data, source, force_merge, now) ==
  IF Rejects(best_match, force_merge)
    THEN CreateNew(st, hist, customer_data, source, now)
    ELSE MergeInto(st, hist, best_match, customer_data, source, force_merge, now)

\* cdp.py:210-285: the call decides on matches[0]
OnBestMatch(st, hist, best_match, customer_data, source, force_merge, now) ==
  IF Rejects(best_match, force_merge)
    THEN ConflictDetected(st, hist, best_match)
    ELSE MergeInto(st, hist, best_match, customer_data, source, force_merge, now)

\* the first safe match of the list, or its first match when none is safe
FirstSafe(matches, safe) == IF safe # <<>> THEN safe[1] ELSE matches[1]

\* OnMatches deciding on the first safe match in place of matches[0]
OnMatches_FirstSafe(st, hist, matches, customer_data, source, force_merge, now) ==
  IF matches # <<>>
    THEN OnBestMatch(st, hist,
                     FirstSafe(matches, SelectSeq(matches, LAMBDA m : m.is_safe_match)),
                     customer_data, source, force_merge, now)
    ELSE CreateNew(st, hist, customer_data, source, now)

\* cdp.py:209-320
OnMatches(st, hist, matches, customer_data, source, force_merge, now) ==
  IF matches # <<>>
    THEN OnBestMatch(st, hist, matches[1], customer_data, source, force_merge, now)
    ELSE CreateNew(st, hist, customer_data, source, now)

\* cdp.py:198-329 when the store does not fail; [store, history, result]
add_customer_data(st, hist, threshold, now, customer_data, source, force_merge) ==
  OnMatches(st, hist, _find_matching_customers(st, customer_data, threshold),
            customer_data, source, force_merge, now)

(***************************************************************************)
(* Bounds and input values                                                 *)
(***************************************************************************)
\* add_customer_data calls in one run of Spec
MaxCalls == 3

Ana == <<"a", "n", "a">>
AnaUpper == <<"A", "n", "a">>
Ann == <<"a", "n", "n">>
Anab == <<"a", "n", "a", "b">>
Anabo == <<"a", "n", "a", "b", "o">>
Bob == <<"b", "o", "b">>
EmailA == <<"a", "@", "x">>
EmailAUpper == <<"A", "@", "x">>
EmailB == <<"b", "@", "x">>
DocPunct == <<"1", "-", "2">>
Doc12 == <<"1", "2">>
Doc34 == <<"3", "4">>
DocNoDigits == <<"n", "a">>
Tel55 == <<"5", "5">>
Tel66 == <<"6", "6">>
Date90 == <<"9", "0">>
Date91 == <<"9", "1">>
Spaces == <<" ", " ">>

Sources == {"crm", "csv_import"}

\* the records submitted in Spec
RecEmailName == [EmptyData EXCEPT !.email = EmailA, !.nome = Ana]
RecEmailNamePhone ==
  [EmptyData EXCEPT !.email = EmailA, !.nome = Ana, !.telefone = Tel55]
RecDocName == [EmptyData EXCEPT !.documento = DocPunct, !.nome = Ana, !.email = EmailA]
RecOtherDocName == [EmptyData EXCEPT !.documento = Doc34, !.nome = Ana]
RecEmailOtherName == [EmptyData EXCEPT !.email = EmailA, !.nome = Bob]
RecEmailBirth == [EmptyData EXCEPT !.email = EmailA, !.data_nascimento = Date90]
RecBlank == [EmptyData EXCEPT !.nome = <<>>, !.email = Spaces]

Inputs ==
  {RecEmailName, RecEmailNamePhone, RecDocName, RecOtherDocName,
   RecEmailOtherName, RecEmailBirth, RecBlank}

(***************************************************************************)
(* The platform as a state machine                                         *)
(***************************************************************************)
NoCall == [customer_data |-> EmptyData, source |-> "none", force_merge |-> FALSE]

NoResult ==
  [status |-> "none", customer_id |-> NoId, action |-> "none",
   conflicts |-> <<>>, score |-> Zero, changes_made |-> 0]

NoProbe == [kind |-> "none"]

\* schemas.py:72-84, ImportResult()
NoImport ==
  [total_processed |-> 0, created |-> 0, updated |-> 0, conflicts |-> 0,
   errors |-> 0, details |-> <<>>]

\* no exception left the last call
NoException == "none"

\* the callers that may be inside add_customer_data at the same time
Workers == {"w1", "w2"}

\* a caller outside add_customer_data
Idle == [pc |-> "idle"]

\* cdp.py:20-23: an empty database, the default threshold
Init ==
  /\ store = <<>>
  /\ history = <<>>
  /\ match_threshold = MATCH_THRESHOLD
  /\ clock = 0
  /\ call = NoCall
  /\ result = NoResult
  /\ probe = NoProbe
  /\ import_result = NoImport
  /\ raised = NoException
  /\ workers = [w \in Workers |-> Idle]

\* one call of add_customer_data at time clock + 1 (cdp.py:204)
Return(out) ==
  /\ store' = out.store
  /\ history' = out.history
  /\ result' = out.result

AddCustomerData(customer_data, source, force_merge) ==
  /\ Return(add_customer_data(store, history, match_threshold, clock + 1,
                              customer_data, source, force_merge))
  /\ clock' = clock + 1
  /\ call' = [customer_data |-> customer_data, source |-> source,
              force_merge |-> force_merge]
  /\ raised' = NoException
  /\ UNCHANGED <<match_threshold, probe, import_result, workers>>

Next ==
  /\ clock < MaxCalls
  /\ \E customer_data \in Inputs, source \in Sources, force_merge \in BOOLEAN :
       AddCustomerData(customer_data, source, force_merge)

Spec == Init /\ [][Next]_vars

(***************************************************************************)
(* Re-submission runs: two customers that share an email and a birth date  *)
(* and differ in name and phone, and a record that adds an address to them *)
(***************************************************************************)
MaxResubmitCalls == 4

RecAnaTel55Birth ==
  [EmptyData EXCEPT !.email = EmailA, !.nome = Ana, !.telefone = Tel55,
                    !.data_nascimento = Date90]
RecBobTel66Birth ==
  [EmptyData EXCEPT !.email = EmailA, !.nome = Bob, !.telefone = Tel66,
                    !.data_nascimento = Date90]
RecEmailBirthAddress ==
  [EmptyData EXCEPT !.email = EmailA, !.data_nascimento = Date90, !.endereco = Anab]
RecEmailAddress == [EmptyData EXCEPT !.email = EmailA, !.endereco = Anab]

ResubmitInputs ==
  {RecAnaTel55Birth, RecBobTel66Birth, RecEmailBirthAddress, RecEmailAddress}

NextResubmit ==
  /\ clock < MaxResubmitCalls
  /\ \E customer_data \in ResubmitInputs, source \in Sources :
       AddCustomerData(customer_data, source, FALSE)

SpecResubmit == Init /\ [][NextResubmit]_vars

(***************************************************************************)
(* calculate_match_score on its own: every combination of one pair of      *)
(* values per scored field, in both orders                                 *)
(***************************************************************************)
DocPairs ==
  {<<None, None>>, <<Doc12, None>>, <<DocPunct, Doc12>>, <<Doc12, Doc34>>,
   <<DocPunct, Doc34>>, <<DocNoDigits, Doc12>>, <<<<>>, Doc12>>}
EmailPairs == {<<None, None>>, <<EmailA, EmailA>>, <<EmailA, EmailAUpper>>, <<EmailA, EmailB>>}
NamePairs ==
  {<<None, None>>, <<Ana, AnaUpper>>, <<Ana, Bob>>, <<Ana, Ann>>, <<Anab, Anabo>>,
   <<Spaces, Ana>>}
PhonePairs == {<<None, None>>, <<Tel55, None>>, <<Tel55, Tel55>>, <<Tel55, Tel66>>}
BirthPairs == {<<None, None>>, <<Date90, Date90>>, <<Date90, Date91>>}
AddressPairs == {<<None, None>>, <<Anab, Anab>>, <<Anab, Bob>>}

PairRecord(k, dp, ep, np, tp, bp, ap) ==
  [EmptyData EXCEPT !.documento = dp[k], !.email = ep[k], !.nome = np[k],
                    !.telefone = tp[k], !.data_nascimento = bp[k], !.endereco = ap[k]]

MatchProbe(k, dp, ep, np, tp, bp, ap) ==
  [kind |-> "match",
   a |-> PairRecord(k, dp, ep, np, tp, bp, ap),
   b |-> PairRecord(3 - k, dp, ep, np, tp, bp, ap),
   done |-> FALSE,
   out |-> <<Zero, <<>>>>]

InitMatch ==
  /\ store = <<>>
  /\ history = <<>>
  /\ match_threshold = MATCH_THRESHOLD
  /\ clock = 0
  /\ call = NoCall
  /\ result = NoResult
  /\ import_result = NoImport
  /\ raised = NoException
  /\ workers = [w \in Workers |-> Idle]
  /\ \E k \in {1, 2}, dp \in DocPairs, ep \in EmailPairs, np \in NamePairs,
        tp \in PhonePairs, bp \in BirthPairs, ap \in AddressPairs :
       probe = MatchProbe(k, dp, ep, np, tp, bp, ap)

CalculateMatchScore ==
  /\ probe.kind = "match"
  /\ ~probe.done
  /\ probe' = [probe EXCEPT !.done = TRUE,
                            !.out = calculate_match_score(probe.a, probe.b)]
  /\ UNCHANGED <<store, history, match_threshold, clock, call, result,
                 import_result, raised, workers>>

SpecMatch == InitMatch /\ [][CalculateMatchScore]_vars

(***************************************************************************)
(* _merge_customer_data on its own: one field holds the pair of values     *)
(* <<e1, n1>>, the nine others the pair <<e0, n0>>                         *)
(***************************************************************************)
MergeValues == {None, <<>>, <<" ">>, <<"a">>, <<"a", " ">>}

MergeProbe(field, e1, n1, e0, n0, source) ==
  [kind |-> "merge",
   existing |-> [f \in Fields |-> IF f = field THEN e1 ELSE e0],
   incoming |-> [f \in Fields |-> IF f = field THEN n1 ELSE n0],
   source |-> source,
   done |-> FALSE,
   out |-> [merged |-> EmptyData, history |-> <<>>]]

InitMerge ==
  /\ store = <<>>
  /\ history = <<>>
  /\ match_threshold = MATCH_THRESHOLD
  /\ clock = 0
  /\ call = NoCall
  /\ result = NoResult
  /\ import_result = NoImport
  /\ raised = NoException
  /\ workers = [w \in Workers |-> Idle]
  /\ \E field \in Fields, e1 \in MergeValues, n1 \in MergeValues,
        e0 \in MergeValues, n0 \in MergeValues, source \in Sources :
       probe = MergeProbe(field, e1, n1, e0, n0, source)

MergeCustomerData ==
  /\ probe.kind = "merge"
  /\ ~probe.done
  /\ probe' = [probe EXCEPT !.done = TRUE,
                            !.out = _merge_customer_data(probe.existing, probe.incoming,
                                                         probe.source, 1)]
  /\ UNCHANGED <<store, history, match_threshold, clock, call, result,
                 import_result, raised, workers>>

SpecMerge == InitMerge /\ [][MergeCustomerData]_vars

(***************************************************************************)
(* Batch import: ImportService.execute_import over the platform            *)
(***************************************************************************)
\* rows processed by the imports of one run of SpecImport
MaxImportRows == 3

\* import_service.py:155-157: CustomerData(**valid_fields), the recognised
\* keys of the row and None for the fields it lacks
CustomerDataOf(customer_dict) ==
  [f \in Fields |-> IF f \in DOMAIN customer_dict THEN customer_dict[f] ELSE None]

\* Categorize with created = 1 in place of created += 1
Categorize_CreatedOnce(res, status) ==
  [res EXCEPT
     !.total_processed = @ + 1,
     !.created = IF status = "created" THEN 1 ELSE @,
     !.updated = IF status = "updated" THEN @ + 1 ELSE @,
     !.conflicts = IF status = "conflict_detected" THEN @ + 1 ELSE @,
     !.errors = IF status \notin {"created", "updated", "conflict_detected"}
                  THEN @ + 1 ELSE @]

\* import_service.py:166-176
Categorize(res, status) ==
  [res EXCEPT
     !.total_processed = @ + 1,
     !.created = IF status = "created" THEN @ + 1 ELSE @,
     !.updated = IF status = "updated" THEN @ + 1 ELSE @,
     !.conflicts = IF status = "conflict_detected" THEN @ + 1 ELSE @,
     !.errors = IF status \notin {"created", "updated", "conflict_detected"}
                  THEN @ + 1 ELSE @]

\* import_service.py:179-186
Detail(row, add_result) ==
  [row |-> row, status |-> add_result.status,
   customer_id |-> IF "customer_id" \in DOMAIN add_result
                     THEN add_result.customer_id ELSE NoId,
   changes_made |-> IF "changes_made" \in DOMAIN add_result
                      THEN add_result.changes_made ELSE 0]

\* import_service.py:166-186: the ImportResult after one row's add_result
Tally(res, row, add_result) ==
  [Categorize(res, add_result.status) EXCEPT
     !.details = Append(@, Detail(row, add_result))]

\* import_service.py:160-186: the state of the import after row i, from what
\* add_customer_data returned for it
AfterRow(acc, i, out) ==
  [store |-> out.store, history |-> out.history, now |-> acc.now + 1,
   result |-> Tally(acc.result, i, out.result)]

\* import_service.py:147-186 with no progress_callback: the rows from i on
RECURSIVE ImportLoop(_, _, _, _, _, _)
ImportLoop(i, customers, source, force_merge, threshold, acc) ==
  IF i > Len(customers) THEN acc
  ELSE ImportLoop(i + 1, customers, source, force_merge, threshold,
         AfterRow(acc, i,
           add_customer_data(acc.store, acc.history, threshold, acc.now + 1,
                             CustomerDataOf(customers[i]), source, force_merge)))

\* import_service.py:140-200; [store, history, now, result]
execute_import(st, hist, threshold, now, customers, source, force_merge) ==
  ImportLoop(1, customers, source, force_merge, threshold,
             [store |-> st, history |-> hist, now |-> now, result |-> NoImport])

\* the rows of the imported files; idade is a column the platform ignores
RowAnab == [nome |-> Anab]
RowAna == [nome |-> Ana, idade |-> Date90]
RowEmailA == [email |-> EmailA]
RowEmailAUpperTel == [email |-> EmailAUpper, telefone |-> Tel55]
RowDoc12 == [documento |-> Doc12, cidade |-> Bob]
RowDocPunctTel == [documento |-> DocPunct, telefone |-> Tel66]

ImportRows == {RowAnab, RowAna, RowEmailA, RowEmailAUpperTel, RowDoc12, RowDocPunctTel}

\* the files of at most n rows
Batches(n) == UNION {[1..k -> ImportRows] : k \in 0..n}

ImportDone(out) ==
  /\ store' = out.store
  /\ history' = out.history
  /\ clock' = out.now
  /\ import_result' = out.result

ExecuteImport(customers, source, force_merge) ==
  /\ ImportDone(execute_import(store, history, match_threshold, clock,
                               customers, source, force_merge))
  /\ call' = [customers |-> customers, source |-> source,
              force_merge |-> force_merge]
  /\ raised' = NoException
  /\ UNCHANGED <<match_threshold, result, probe, workers>>

NextImport ==
  \E customers \in Batches(MaxImportRows - clock), force_merge \in BOOLEAN :
    ExecuteImport(customers, "csv_import", force_merge)

SpecImport == Init /\ [][NextImport]_vars

(***************************************************************************)
(* Concurrent callers: add_customer_data takes no lock and holds no        *)
(* transaction across its lookup (cdp.py:207, in a session of its own,     *)
(* cdp.py:82-135) and its write (cdp.py:209-320), so another call can      *)
(* commit between the two.  The write, one commit, is atomic.              *)
(***************************************************************************)
\* add_customer_data calls begun in one run of SpecConcurrent
MaxConcurrentCalls == 3

ConcurrentInputs == {RecEmailName, RecEmailNamePhone, RecOtherDocName}

\* cdp.py:201-207: the caller has taken current_time and ranked the matches
\* it found in the store as it was then
Matched(customer_data, source, force_merge, current_time, matches) ==
  [pc |-> "matched", customer_data |-> customer_data, source |-> source,
   force_merge |-> force_merge, current_time |-> current_time,
   matches |-> matches]

\* cdp.py:201-207
BeginAdd(w, customer_data, source, force_merge) ==
  /\ workers[w] = Idle
  /\ clock < MaxConcurrentCalls
  /\ clock' = clock + 1
  /\ workers' = [workers EXCEPT ![w] =
       Matched(customer_data, source, force_merge, clock + 1,
               _find_matching_customers(store, customer_data, match_threshold))]
  /\ UNCHANGED <<store, history, match_threshold, call, result, probe,
                 import_result, raised>>

\* cdp.py:209-320 on the store as it is now, with the matches found before;
\* the history entries carry current_time (cdp.py:174 read as cdp.py:204)
FinishAdd(w) ==
  /\ workers[w].pc = "matched"
  /\ Return(OnMatches(store, history, workers[w].matches,
                      workers[w].customer_data, workers[w].source,
                      workers[w].force_merge, workers[w].current_time))
  /\ call' = [customer_data |-> workers[w].customer_data,
              source |-> workers[w].source,
              force_merge |-> workers[w].force_merge]
  /\ workers' = [workers EXCEPT ![w] = Idle]
  /\ raised' = NoException
  /\ UNCHANGED <<match_threshold, clock, probe, import_result>>

NextConcurrent ==
  \E w \in Workers :
    \/ \E customer_data \in ConcurrentInputs :
         BeginAdd(w, customer_data, "crm", FALSE)
    \/ FinishAdd(w)

SpecConcurrent == Init /\ [][NextConcurrent]_vars

(***************************************************************************)
(* Store failures: an exception inside add_customer_data's try block       *)
(* (cdp.py:203-320) is caught at cdp.py:322-327; what the session had      *)
(* written is pending until the one commit of the call (cdp.py:273, 310)   *)
(***************************************************************************)
\* where the store fails: in the lookup (cdp.py:207) or in the commit
Failures == {"lookup", "commit"}

\* cdp.py:324-327
ErrorResult(e) == [status |-> "error", message |-> e]

\* Rollback keeping what the session had written
Rollback_KeepsPending(st, hist, pending, e) ==
  [store |-> pending.store, history |-> pending.history, result |-> ErrorResult(e)]

\* cdp.py:322-327: session.rollback() drops the pending writes of the session
Rollback(st, hist, pending, e) ==
  [store |-> st, history |-> hist, result |-> ErrorResult(e)]

\* cdp.py:209-327 when the commit fails: a refused match returns before any
\* write; otherwise the merge or the new row is pending and rolled back
FailingCommit(st, hist, matches, customer_data, source, force_merge, now) ==
  IF matches # <<>> /\ Rejects(matches[1], force_merge)
    THEN ConflictDetected(st, hist, matches[1])
    ELSE Rollback(st, hist,
                  OnMatches(st, hist, matches, customer_data, source, force_merge, now),
                  "commit")

\* cdp.py:198-329 when the store fails at `failure`; [store, history, result]
add_customer_data_failing(st, hist, threshold, now, customer_data, source, force_merge, failure) ==
  IF failure = "lookup"
    THEN Rollback(st, hist, [store |-> st, history |-> hist], "lookup")
    ELSE FailingCommit(st, hist,
                       _find_matching_customers(st, customer_data, threshold),
                       customer_data, source, force_merge, now)

FailureInputs == {RecEmailName, RecEmailNamePhone, RecEmailOtherName}

AddCustomerDataFailing(customer_data, source, force_merge, failure) ==
  /\ Return(add_customer_data_failing(store, history, match_threshold, clock + 1,
                                      customer_data, source, force_merge, failure))
  /\ clock' = clock + 1
  /\ call' = [customer_data |-> customer_data, source |-> source,
              force_merge |-> force_merge]
  /\ raised' = NoException
  /\ UNCHANGED <<match_threshold, probe, import_result, workers>>

NextFailure ==
  /\ clock < MaxCalls
  /\ \E customer_data \in FailureInputs, force_merge \in BOOLEAN :
       \/ AddCustomerData(customer_data, "crm", force_merge)
       \/ \E failure \in Failures :
            AddCustomerDataFailing(customer_data, "crm", force_merge, failure)

SpecFailure == Init /\ [][NextFailure]_vars

(***************************************************************************)
(* Configuration: update_match_threshold between add_customer_data calls   *)
(***************************************************************************)
\* the thresholds asked for: below 0, 0, inside, the default, 1, above 1
Thresholds ==
  {<<-1, 10>>, Zero, <<1, 2>>, MATCH_THRESHOLD, <<9, 10>>, One, <<11, 10>>}

\* InRange with the bounds left out
InRange_Exclusive(new_threshold) ==
  RLess(Zero, new_threshold) /\ RLess(new_threshold, One)

\* cdp.py:437
InRange(new_threshold) == RLeq(Zero, new_threshold) /\ RLeq(new_threshold, One)

\* cdp.py:435-440; [match_threshold, raised]
update_match_threshold(threshold, new_threshold) ==
  IF InRange(new_threshold)
    THEN [match_threshold |-> new_threshold, raised |-> NoException]
    ELSE [match_threshold |-> threshold, raised |-> "ValueError"]

Configured(out) ==
  /\ match_threshold' = out.match_threshold
  /\ raised' = out.raised

UpdateMatchThreshold(new_threshold) ==
  /\ Configured(update_match_threshold(match_threshold, new_threshold))
  /\ call' = [new_threshold |-> new_threshold]
  /\ UNCHANGED <<store, history, clock, result, probe, import_result, workers>>

ThresholdInputs == {RecEmailName, RecEmailOtherName, RecEmailBirth}

NextThreshold ==
  \/ \E new_threshold \in Thresholds : UpdateMatchThreshold(new_threshold)
  \/ /\ clock < MaxCalls
     /\ \E customer_data \in ThresholdInputs :
          AddCustomerData(customer_data, "crm", FALSE)

SpecThreshold == Init /\ [][NextThreshold]_vars

(***************************************************************************)
(* Matcher construction: CustomerMatcher(weights) and a first scoring.     *)
(* A weights argument is [is_none |-> TRUE] for None, or                  *)
(* [is_none |-> FALSE, items |-> the dict as a function].                  *)
(***************************************************************************)
NoWeights == [is_none |-> TRUE]

Dict(items) == [is_none |-> FALSE, items |-> items]

WeightKeys == {"documento", "email", "nome", "foo"}

WeightValues == {<<1, 4>>, <<1, 2>>}

\* every dict over WeightKeys, the empty one included, and None
WeightArgs ==
  {NoWeights}
    \cup {Dict(items) : items \in UNION {[keys -> WeightValues] : keys \in SUBSET WeightKeys}}

\* matcher.py:16: `weights or FIELD_WEIGHTS`, None and {} are falsy
__init__(weights_arg) ==
  IF weights_arg.is_none \/ DOMAIN weights_arg.items = {}
    THEN FIELD_WEIGHTS
    ELSE weights_arg.items

\* matcher.py:15-18: no statement of the constructor raises
Construct(weights_arg) ==
  /\ probe.kind = "none"
  /\ probe' = [kind |-> "matcher", weights_arg |-> weights_arg,
               weights |-> __init__(weights_arg)]
  /\ raised' = NoException
  /\ UNCHANGED <<store, history, match_threshold, clock, call, result,
                 import_result, workers>>

\* matcher.py:68-76 on the constructed matcher: self.weights['email'] is a
\* KeyError when the dict has no such key
_check_email_match_of(self_weights, email1, email2) ==
  IF ~Truthy(email1) \/ ~Truthy(email2) THEN [score |-> Zero, raised |-> NoException]
  ELSE IF Lower(email1) = Lower(email2)
    THEN IF "email" \in DOMAIN self_weights
           THEN [score |-> self_weights.email, raised |-> NoException]
           ELSE [score |-> Zero, raised |-> "KeyError"]
  ELSE [score |-> Zero, raised |-> NoException]

Scored(out) ==
  /\ probe' = [kind |-> "scored", weights_arg |-> probe.weights_arg,
               weights |-> probe.weights, score |-> out.score]
  /\ raised' = out.raised

CheckEmailMatch(email1, email2) ==
  /\ probe.kind = "matcher"
  /\ Scored(_check_email_match_of(probe.weights, email1, email2))
  /\ UNCHANGED <<store, history, match_threshold, clock, call, result,
                 import_result, workers>>

NextConstruct ==
  \/ \E weights_arg \in WeightArgs : Construct(weights_arg)
  \/ \E email2 \in {EmailAUpper, EmailB} : CheckEmailMatch(EmailA, email2)

SpecConstruct == Init /\ [][NextConstruct]_vars

(***************************************************************************)
(* similarity_score on its own: every pair of strings over two letters     *)
(***************************************************************************)
MaxStrLen == 4

Letters == {"a", "b"}

StringsUpTo(n) == UNION {[1..k -> Letters] : k \in 0..n}

InitSimilarity ==
  /\ store = <<>>
  /\ history = <<>>
  /\ match_threshold = MATCH_THRESHOLD
  /\ clock = 0
  /\ call = NoCall
  /\ result = NoResult
  /\ import_result = NoImport
  /\ raised = NoException
  /\ workers = [w \in Workers |-> Idle]
  /\ \E str1 \in StringsUpTo(MaxStrLen), str2 \in StringsUpTo(MaxStrLen) :
       probe = [kind |-> "similarity", str1 |-> str1, str2 |-> str2,
                done |-> FALSE, out |-> Zero]

SimilarityScore ==
  /\ probe.kind = "similarity"
  /\ ~probe.done
  /\ probe' = [probe EXCEPT !.done = TRUE,
                            !.out = similarity_score(probe.str1, probe.str2)]
  /\ UNCHANGED <<store, history, match_threshold, clock, call, result,
                 import_result, raised, workers>>

SpecSimilarity == InitSimilarity /\ [][SimilarityScore]_vars

(***************************************************************************)
(* Ranking runs: two customers that come to share an email, one of them    *)
(* named unlike the incoming record and the other named nearly like it     *)
(***************************************************************************)
MaxRankCalls == 4

RecBobTel == [EmptyData EXCEPT !.nome = Bob, !.telefone = Tel55]
RecAnnEmail == [EmptyData EXCEPT !.nome = Ann, !.email = EmailA]
RecBobTelEmail == [EmptyData EXCEPT !.nome = Bob, !.telefone = Tel55, !.email = EmailA]

RankInputs == {RecBobTel, RecAnnEmail, RecBobTelEmail, RecEmailName}

NextRank ==
  /\ clock < MaxRankCalls
  /\ \E customer_data \in RankInputs, force_merge \in BOOLEAN :
       AddCustomerData(customer_data, "crm", force_merge)

SpecRank == Init /\ [][NextRank]_vars

(***************************************************************************)
(* Document runs: records that share an email and carry the same digits    *)
(* with and without punctuation, other digits, or a document without any   *)
(* digit, or nothing but a punctuated document, under the default          *)
(* threshold, a low one and zero                                           *)
(***************************************************************************)
MaxDocumentCalls == 3

DocumentThresholds == {Zero, <<1, 4>>, MATCH_THRESHOLD}

RecDoc12Email == [EmptyData EXCEPT !.documento = Doc12, !.email = EmailA]
RecDocPunctEmail == [EmptyData EXCEPT !.documento = DocPunct, !.email = EmailA]
RecDoc34Email == [EmptyData EXCEPT !.documento = Doc34, !.email = EmailA]
RecDocNoDigitsEmail == [EmptyData EXCEPT !.documento = DocNoDigits, !.email = EmailA]

RecDocPunct == [EmptyData EXCEPT !.documento = DocPunct]

DocumentInputs ==
  {RecDoc12Email, RecDocPunctEmail, RecDoc34Email, RecDocNoDigitsEmail, RecDocPunct}

NextDocument ==
  \/ \E new_threshold \in DocumentThresholds : UpdateMatchThreshold(new_threshold)
  \/ /\ clock < MaxDocumentCalls
     /\ \E customer_data \in DocumentInputs, force_merge \in BOOLEAN :
          AddCustomerData(customer_data, "crm", force_merge)

SpecDocument == Init /\ [][NextDocument]_vars

(***************************************************************************)
(* History runs: a customer whose name is overwritten back and forth, and  *)
(* a customer created with an empty name that is named later               *)
(***************************************************************************)
MaxHistoryCalls == 3

RecSpacesName == [EmptyData EXCEPT !.email = Spaces, !.nome = Ana]

HistoryInputs == {RecBlank, RecSpacesName, RecEmailName, RecEmailOtherName}

NextHistory ==
  /\ clock < MaxHistoryCalls
  /\ \E customer_data \in HistoryInputs, force_merge \in BOOLEAN :
       AddCustomerData(customer_data, "crm", force_merge)

SpecHistory == Init /\ [][NextHistory]_vars

(***************************************************************************)
(* Batch import with failing rows: for each row the store may fail inside  *)
(* add_customer_data (which then returns status error) or the              *)
(* progress_callback may raise before the row is added                     *)
(***************************************************************************)
MaxFailingImportRows == 3

RowFailures == {"none", "callback"} \cup Failures

FailingImportRows == {RowAna, RowEmailA, RowEmailAUpperTel}

\* AfterException leaving the row out of total_processed
AfterException_Uncounted(acc, i) ==
  [acc EXCEPT
     !.now = @ + 1,
     !.result = [@ EXCEPT
                   !.errors = @ + 1,
                   !.details = Append(@, [row |-> i, status |-> "error",
                                          customer_id |-> NoId, changes_made |-> 0])]]

\* import_service.py:188-198: the except branch; the store is as it was
AfterException(acc, i) ==
  [acc EXCEPT
     !.now = @ + 1,
     !.result = [@ EXCEPT
                   !.errors = @ + 1,
                   !.total_processed = @ + 1,
                   !.details = Append(@, [row |-> i, status |-> "error",
                                          customer_id |-> NoId, changes_made |-> 0])]]

\* import_service.py:160-164: what add_customer_data returns for the row
AddResult(acc, customer_dict, source, force_merge, threshold, failure) ==
  IF failure = "none"
    THEN add_customer_data(acc.store, acc.history, threshold, acc.now + 1,
                           CustomerDataOf(customer_dict), source, force_merge)
    ELSE add_customer_data_failing(acc.store, acc.history, threshold, acc.now + 1,
                                   CustomerDataOf(customer_dict), source, force_merge,
                                   failure)

\* import_service.py:148-198: one pass of the loop body
ImportRow(acc, i, customer_dict, source, force_merge, threshold, failure) ==
  IF failure = "callback"
    THEN AfterException(acc, i)
    ELSE AfterRow(acc, i, AddResult(acc, customer_dict, source, force_merge,
                                    threshold, failure))

\* import_service.py:147-198: the rows from i on
RECURSIVE ImportLoopFailing(_, _, _, _, _, _, _)
ImportLoopFailing(i, customers, failures, source, force_merge, threshold, acc) ==
  IF i > Len(customers) THEN acc
  ELSE ImportLoopFailing(i + 1, customers, failures, source, force_merge, threshold,
         ImportRow(acc, i, customers[i], source, force_merge, threshold, failures[i]))

\* import_service.py:140-200; [store, history, now, result]
execute_import_failing(st, hist, threshold, now, customers, failures, source, force_merge) ==
  ImportLoopFailing(1, customers, failures, source, force_merge, threshold,
                    [store |-> st, history |-> hist, now |-> now, result |-> NoImport])

ExecuteImportFailing(customers, failures, source, force_merge) ==
  /\ ImportDone(execute_import_failing(store, history, match_threshold, clock,
                                       customers, failures, source, force_merge))
  /\ call' = [customers |-> customers, failures |-> failures, source |-> source,
              force_merge |-> force_merge]
  /\ raised' = NoException
  /\ UNCHANGED <<match_threshold, result, probe, workers>>

NextImportFailure ==
  \E k \in 0..(MaxFailingImportRows - clock), force_merge \in BOOLEAN :
    \E customers \in [1..k -> FailingImportRows], failures \in [1..k -> RowFailures] :
      ExecuteImportFailing(customers, failures, "csv_import", force_merge)

SpecImportFailure == Init /\ [][NextImportFailure]_vars

(***************************************************************************)
(* Properties                                                              *)
(***************************************************************************)
\* the documents of the scored pair both keep a digit and differ in their digits
DocsDisagree(a, b) ==
  /\ a.documento # None /\ b.documento # None
  /\ OnlyDigits(a.documento) # <<>>
  /\ OnlyDigits(b.documento) # <<>>
  /\ OnlyDigits(a.documento) # OnlyDigits(b.documento)

\* C1: when both documents are non-empty after stripping the non-digits and
\* differ after it, calculate_match_score returns score 0.0 and a conflict map
\* whose only key is documento, whatever the other fields hold.
C1_DocumentConflictEliminates ==
  (probe.kind = "match" /\ probe.done /\ DocsDisagree(probe.a, probe.b))
    => /\ probe.out[1] = Zero
       /\ Len(probe.out[2]) = 1
       /\ ConflictKeys(probe.out[2]) = {"documento"}

\* C1 scored: disagreeing documents beside an equal email, an equal phone, an
\* equal birth date and a disagreeing name
C1_Witness ==
  /\ probe.kind = "match" /\ probe.done /\ DocsDisagree(probe.a, probe.b)
  /\ probe.a.email # None /\ probe.a.email = probe.b.email
  /\ probe.a.telefone # None /\ probe.a.telefone = probe.b.telefone
  /\ probe.a.data_nascimento # None
  /\ probe.a.data_nascimento = probe.b.data_nascimento
  /\ probe.a.nome = Ana /\ probe.b.nome = Bob

\* the store holds one record, with a document and a name, and the incoming
\* record has the same name and a document with other digits
SameNameOtherDocument(st, customer_data) ==
  /\ Len(st) = 1
  /\ st[1].data.nome # None /\ Strip(st[1].data.nome) # <<>>
  /\ customer_data.nome = st[1].data.nome
  /\ DocsDisagree(st[1].data, customer_data)

\* C2: with the default threshold 0.7 and force_merge = False, a call whose
\* record has the name of the stored record and a document that differs from
\* the stored one after normalization returns conflict_detected.
C2_DocumentConflictDetected ==
  [][(/\ clock' = clock + 1
      /\ match_threshold = MATCH_THRESHOLD
      /\ ~call'.force_merge
      /\ SameNameOtherDocument(store, call'.customer_data))
       => result'.status = "conflict_detected"]_vars

\* C3: the score calculate_match_score returns lies in [0, 1].
C3_ScoreInUnitInterval ==
  (probe.kind = "match" /\ probe.done)
    => (RLeq(Zero, probe.out[1]) /\ RLeq(probe.out[1], One))

\* C4: a call that returns conflict_detected leaves the store as it was: no
\* customer row is created or modified and no history row is added.
C4_ConflictLeavesStore ==
  [][(clock' = clock + 1 /\ result'.status = "conflict_detected")
       => (store' = store /\ history' = history)]_vars

\* C4 happened: a call without force_merge was refused over a conflict with a
\* stored record
C4_Witness ==
  /\ result.status = "conflict_detected"
  /\ ~call.force_merge
  /\ result.conflicts # <<>>
  /\ store # <<>>

\* C5: for each of the 10 fields, the merged value is the incoming value when
\* that is non-null and non-blank after trimming, and the existing value
\* otherwise.
C5_IncomingWinsWhenPresent ==
  (probe.kind = "merge" /\ probe.done)
    => \A f \in Fields :
         probe.out.merged[f] =
           IF probe.incoming[f] # None /\ Strip(probe.incoming[f]) # <<>>
             THEN probe.incoming[f]
             ELSE probe.existing[f]

\* C5 merged: one field took a differing incoming value, another kept its
\* value against a blank incoming one
C5_Witness ==
  /\ probe.kind = "merge" /\ probe.done
  /\ \E f \in Fields :
       /\ probe.existing[f] = <<"a">>
       /\ probe.incoming[f] = <<"a", " ">>
       /\ probe.out.merged[f] = <<"a", " ">>
  /\ \E f \in Fields :
       /\ probe.existing[f] = <<"a">>
       /\ probe.incoming[f] = <<" ">>
       /\ probe.out.merged[f] = <<"a">>

\* the entries _merge_customer_data returned for field f
EntriesOf(hist, f) == {i \in DOMAIN hist : hist[i].field = f}

\* C6: _merge_customer_data emits exactly one HistoryEntry for each field
\* whose incoming value is present and differs from the existing value, none
\* for any other field, and each entry carries the existing value as
\* old_value, the incoming value as new_value, the source tag and confidence 1.0.
C6_OneEntryPerChangedField ==
  (probe.kind = "merge" /\ probe.done)
    => /\ \A f \in Fields :
            Cardinality(EntriesOf(probe.out.history, f)) =
              IF /\ probe.incoming[f] # None
                 /\ Strip(probe.incoming[f]) # <<>>
                 /\ probe.incoming[f] # probe.existing[f]
                THEN 1 ELSE 0
       /\ \A i \in DOMAIN probe.out.history :
            /\ probe.out.history[i].old_value = probe.existing[probe.out.history[i].field]
            /\ probe.out.history[i].new_value = probe.incoming[probe.out.history[i].field]
            /\ probe.out.history[i].source = probe.source
            /\ probe.out.history[i].confidence = One

\* C6 merged: one field changed and has its entry, the nine others came with
\* their existing value and have none
C6_Witness ==
  /\ probe.kind = "merge" /\ probe.done
  /\ Len(probe.out.history) = 1
  /\ probe.out.history[1].old_value = <<"a">>
  /\ probe.out.history[1].new_value = <<"a", " ">>
  /\ \E f \in Fields : probe.incoming[f] = <<"a">> /\ probe.existing[f] = <<"a">>

\* the data of customer customer_id in st
DataOf(st, customer_id) == st[RowOf(st, customer_id)].data

\* C7: merging is idempotent, and through add_customer_data a second
\* identical call that merges reports changes_made = 0 and adds no history row.
C7_SecondCallChangesNothing ==
  [][(clock' = clock + 1 /\ call' = call /\ result'.status = "updated")
       => (result'.changes_made = 0 /\ history' = history)]_vars

\* C7, the part that is about one customer: a merge of a record into a
\* customer whose fields equal it, and a second identical call that merges
\* into the customer of the first call, report changes_made = 0, add no
\* history row and leave the customer's fields.
C7_MergeIsIdempotent ==
  [][(clock' = clock + 1 /\ result'.status = "updated"
      /\ \/ DataOf(store, result'.customer_id) = call'.customer_data
         \/ (call' = call /\ result.customer_id = result'.customer_id))
       => /\ result'.changes_made = 0
          /\ history' = history
          /\ DataOf(store', result'.customer_id)
               = DataOf(store, result'.customer_id)]_vars

\* C7 happened: the call merged, with no change, into the customer that the
\* call before it created from the same record and the same source
C7_Witness ==
  /\ clock >= 2
  /\ result.status = "updated"
  /\ result.changes_made = 0
  /\ store[RowOf(store, result.customer_id)].created_at = clock - 1
  /\ store[RowOf(store, result.customer_id)].updated_at = clock
  /\ store[RowOf(store, result.customer_id)].sources = <<call.source>>
  /\ DataOf(store, result.customer_id) = call.customer_data

\* C8: every merged value is the existing or the incoming value of that field.
C8_MergedValueFromInputs ==
  (probe.kind = "merge" /\ probe.done)
    => \A f \in Fields :
         probe.out.merged[f] \in {probe.existing[f], probe.incoming[f]}

\* C8 merged: one field took the incoming value, another kept the existing
\* one, the two values differing in both
C8_Witness ==
  /\ probe.kind = "merge" /\ probe.done
  /\ \E f \in Fields :
       /\ probe.out.merged[f] = probe.incoming[f]
       /\ probe.incoming[f] # probe.existing[f]
  /\ \E f \in Fields :
       /\ probe.out.merged[f] = probe.existing[f]
       /\ probe.incoming[f] # probe.existing[f]

\* the record has an email and a name and nothing else
OnlyEmailAndName(data) ==
  /\ data.email # None /\ Strip(data.email) # <<>>
  /\ data.nome # None /\ Strip(data.nome) # <<>>
  /\ \A f \in Fields \ {"email", "nome"} : data[f] = None

\* the incoming record is the stored one with a phone added
AddsPhone(data, customer_data) ==
  /\ customer_data.telefone # None /\ Strip(customer_data.telefone) # <<>>
  /\ customer_data = [data EXCEPT !.telefone = customer_data.telefone]

C10_EmptyRecordRejected ==
  [][(/\ clock' = clock + 1
      /\ \A f \in Fields : \/ call'.customer_data[f] = None
                           \/ Strip(call'.customer_data[f]) = <<>>)
       => /\ store' = store
          /\ history' = history
          /\ result'.status \notin {"created", "updated"}]_vars

\* the last call was an import
ImportCalled(c) == "customers" \in DOMAIN c

\* the tokens of a name that the lookup uses
NameTokens(nome) ==
  IF Truthy(nome)
    THEN {t \in {Split(normalize_text(nome))[i] :
                   i \in DOMAIN Split(normalize_text(nome))} : Len(t) > 2}
    ELSE {}

\* records a and b hold the same document digits, the same email, a common
\* name token longer than 2 characters or the same phone digits
SharesKey(a, b) ==
  \/ /\ normalize_document(a.documento) # <<>>
     /\ normalize_document(a.documento) = normalize_document(b.documento)
  \/ /\ Truthy(a.email) /\ Truthy(b.email)
     /\ Lower(a.email) = Lower(b.email)
  \/ NameTokens(a.nome) \cap NameTokens(b.nome) # {}
  \/ /\ normalize_phone(a.telefone) # <<>>
     /\ normalize_phone(a.telefone) = normalize_phone(b.telefone)

\* the lookup of record a finds a stored record b
LookupFinds(a, b) ==
  _find_potential_matches_in_db(<<[id |-> 1, data |-> b]>>, a) # <<>>

\* no two rows of the file, and no row and stored record, are related by R
Unrelated(R(_, _), customers, st) ==
  /\ \A i \in DOMAIN customers, j \in DOMAIN customers :
       i # j => ~R(CustomerDataOf(customers[i]), CustomerDataOf(customers[j]))
  /\ \A i \in DOMAIN customers, k \in DOMAIN st :
       /\ ~R(CustomerDataOf(customers[i]), st[k].data)
       /\ ~R(st[k].data, CustomerDataOf(customers[i]))

\* the import created one record per row and nothing else
AllCreated(customers) ==
  /\ Len(store') = Len(store) + Len(customers)
  /\ \A k \in DOMAIN store : store'[k] = store[k]
  /\ \A i \in DOMAIN customers :
       store'[Len(store) + i].data = CustomerDataOf(customers[i])
  /\ import_result'.created = Len(customers)
  /\ import_result'.total_processed = Len(customers)
  /\ import_result'.updated = 0
  /\ import_result'.conflicts = 0
  /\ import_result'.errors = 0
  /\ history' = history

Returned(w) == workers[w].pc = "matched" /\ workers'[w] = Idle

\* C12: one add_customer_data call acts as one transaction: of two concurrent
\* calls that carry the same record onto a store with no matching record, at
\* most one creates a customer; a call never creates a customer for a record
\* that the store already holds.
C12_OneRecordPerIncoming ==
  [][\A w \in Workers :
       (Returned(w) /\ result'.status = "created")
         => ~\E k \in DOMAIN store : store[k].data = call'.customer_data]_vars

\* C13: whenever add_customer_data returns status error, the store holds none
\* of the call's writes: every customer row (fields, sources,
\* confidence_score, updated_at) and every history row is as before the call.
C13_ErrorLeavesStore ==
  [][(clock' = clock + 1 /\ result'.status = "error")
       => (store' = store /\ history' = history)]_vars

\* C13 happened: the commit of a merge that had a field to change failed
C13_Witness ==
  /\ result.status = "error"
  /\ result.message = "commit"
  /\ _find_matching_customers(store, call.customer_data, match_threshold) # <<>>
  /\ \E k \in DOMAIN store :
       /\ store[k].data.email = call.customer_data.email
       /\ store[k].data.telefone = None
       /\ call.customer_data.telefone # None

\* C14: the stored confidence_score of every customer never decreases: a
\* merge sets it to the maximum of its previous value and the match score,
\* and no other outcome changes it.
C14_ConfidenceNeverDecreases ==
  [][clock' = clock + 1
       => /\ Len(store') >= Len(store)
          /\ \A k \in DOMAIN store :
               /\ store'[k].id = store[k].id
               /\ RLeq(store[k].confidence_score, store'[k].confidence_score)
               /\ store'[k].confidence_score =
                    IF result'.status = "updated" /\ result'.customer_id = store[k].id
                      THEN RMax(store[k].confidence_score, result'.score)
                      ELSE store[k].confidence_score]_vars

\* C14 happened: a merge raised the confidence_score of a customer to the
\* match score, and a customer created earlier kept its own
C14_Witness ==
  /\ result.status = "updated"
  /\ \E k \in DOMAIN store :
       /\ store[k].id = result.customer_id
       /\ store[k].confidence_score = result.score
       /\ RLess(One, result.score)
  /\ \E k \in DOMAIN store :
       /\ store[k].id # result.customer_id
       /\ store[k].confidence_score = One

\* C15: in every reachable state the stored confidence_score of every
\* customer lies in [0, 1].
C15_ConfidenceInUnitInterval ==
  \A k \in DOMAIN store :
    /\ RLeq(Zero, store[k].confidence_score)
    /\ RLeq(store[k].confidence_score, One)

\* the call added a customer row
RowCreated == Len(store') = Len(store) + 1

Tags(sources) == {sources[i] : i \in DOMAIN sources}

\* C17: each customer's sources list is append-only and holds distinct tags:
\* it starts as [source] at creation, a merge appends the call's source tag
\* only if it is absent, no tag is removed or reordered, none appears twice.
C17_SourcesAppendOnly ==
  [][clock' = clock + 1
       => /\ \A k \in DOMAIN store :
               store'[k].sources =
                 IF /\ result'.status = "updated"
                    /\ result'.customer_id = store[k].id
                    /\ call'.source \notin Tags(store[k].sources)
                   THEN Append(store[k].sources, call'.source)
                   ELSE store[k].sources
          /\ \A k \in DOMAIN store' \ DOMAIN store :
               store'[k].sources = <<call'.source>>
          /\ \A k \in DOMAIN store' :
               Cardinality(Tags(store'[k].sources)) = Len(store'[k].sources)]_vars

\* C17 happened: a customer created from one source and merged from a second
\* was merged again from the first, and holds the two tags
C17_Witness ==
  /\ result.status = "updated"
  /\ \E k \in DOMAIN store :
       /\ store[k].id = result.customer_id
       /\ store[k].updated_at = clock
       /\ Len(store[k].sources) = 2
       /\ store[k].sources[1] = call.source

\* C18: the history is append-only: the history after a call is the history
\* before it followed by the call's new entries, which belong to the merged
\* customer; no existing entry is removed or altered.
C18_HistoryAppendOnly ==
  [][clock' = clock + 1
       => /\ Len(history') >= Len(history)
          /\ SubSeq(history', 1, Len(history)) = history
          /\ Len(history') > Len(history) => result'.status = "updated"
          /\ result'.status = "updated"
               => Len(history') = Len(history) + result'.changes_made
          /\ \A i \in DOMAIN history' \ DOMAIN history :
               /\ history'[i].customer_id = result'.customer_id
               /\ history'[i].timestamp = clock'
               /\ history'[i].source = call'.source]_vars

\* C18 happened: a customer that had a history entry from an earlier call got
\* another one
C18_Witness ==
  \E i \in DOMAIN history, j \in DOMAIN history :
    /\ i < j
    /\ history[i].customer_id = history[j].customer_id
    /\ history[i].timestamp < history[j].timestamp
    /\ history[j].timestamp = clock

\* the last call was update_match_threshold
ThresholdCalled(c) == "new_threshold" \in DOMAIN c

\* C19: update_match_threshold(t) with t outside [0, 1] raises a validation
\* error and leaves match_threshold at its prior value; with t inside [0, 1],
\* bounds included, it sets match_threshold to t.
C19_ThresholdValidated ==
  [][(ThresholdCalled(call') /\ clock' = clock)
       => IF RLeq(Zero, call'.new_threshold) /\ RLeq(call'.new_threshold, One)
            THEN match_threshold' = call'.new_threshold /\ raised' = NoException
            ELSE match_threshold' = match_threshold /\ raised' = "ValueError"]_vars

\* C19 happened: a threshold above 1 was refused after the threshold had been
\* set to 1, which stayed in effect
C19_Witness ==
  /\ ThresholdCalled(call)
  /\ RLess(One, call.new_threshold)
  /\ raised = "ValueError"
  /\ match_threshold = One

RECURSIVE SumOver(_, _)
SumOver(items, keys) ==
  IF keys = {} THEN Zero
  ELSE LET k == CHOOSE x \in keys : TRUE
       IN  RAdd(items[k], SumOver(items, keys \ {k}))

\* the weights sum to 1.0 and name only fields the matcher knows
ValidWeights(items) ==
  /\ DOMAIN items \subseteq DOMAIN FIELD_WEIGHTS
  /\ SumOver(items, DOMAIN items) = One

\* C20: constructing the matcher with a weight configuration whose weights do
\* not sum to 1.0 or that names an unknown field is rejected at construction;
\* no matcher with such weights can be used to score.
C20_InvalidWeightsRejected ==
  /\ probe.kind = "matcher" => (ValidWeights(probe.weights) \/ raised # NoException)
  /\ probe.kind = "scored" => ValidWeights(probe.weights)

\* C21: similarity_score is commutative: for all strings a and b,
\* similarity_score(a, b) equals similarity_score(b, a) exactly, and it is 0.0
\* when either string is empty.
C21_SimilarityCommutative ==
  (probe.kind = "similarity" /\ probe.done)
    => /\ probe.out = similarity_score(probe.str2, probe.str1)
       /\ (probe.str1 = <<>> \/ probe.str2 = <<>>) => probe.out = Zero

\* the place of a customer id in the candidate list
PlaceOf(candidates, customer_id) ==
  CHOOSE i \in DOMAIN candidates : candidates[i].id = customer_id

\* the match at place i is a candidate at or above the threshold, safe exactly
\* when it has no conflict
MatchOk(m, candidates, threshold) ==
  /\ \E i \in DOMAIN candidates : candidates[i].id = m.customer_id
  /\ ~RLess(m.score, threshold)
  /\ m.is_safe_match <=> (m.conflicts = <<>>)

\* scores do not increase along the list, and equal scores keep the order of
\* the candidate list
Ranked(matches, candidates) ==
  \A i, j \in DOMAIN matches :
    i < j => /\ ~RLess(matches[i].score, matches[j].score)
             /\ matches[i].score = matches[j].score
                  => PlaceOf(candidates, matches[i].customer_id)
                       < PlaceOf(candidates, matches[j].customer_id)

MatchesOk(matches, candidates, threshold) ==
  /\ \A i \in DOMAIN matches : MatchOk(matches[i], candidates, threshold)
  /\ Ranked(matches, candidates)

\* C22: _find_matching_customers returns only candidates whose score is at
\* least match_threshold, marks each result is_safe_match exactly when its
\* conflict map is empty, and returns the results in non-increasing score
\* order with equal-score results kept in candidate-discovery order
\* (checked for every record of Inputs against every store reached).
C22_MatchesFilteredAndRanked ==
  \A customer_data \in Inputs :
    MatchesOk(_find_matching_customers(store, customer_data, match_threshold),
              _find_potential_matches_in_db(store, customer_data),
              match_threshold)

\* two matches of equal score, the later-created customer discovered first
TieAgainstStoreOrder(matches) ==
  /\ Len(matches) = 2
  /\ matches[1].score = matches[2].score
  /\ matches[1].customer_id > matches[2].customer_id

\* C22 happened: the last call merged into the first of two equally scored
\* matches, which the email lookup had discovered before the older customer;
\* another stored customer was discarded for a score below the threshold
C22_Witness ==
  /\ result.status = "updated"
  /\ TieAgainstStoreOrder(
       _find_matching_customers(store, call.customer_data, match_threshold))
  /\ result.customer_id = 2
  /\ \E customer_data \in Inputs :
       Len(_find_matching_customers(store, customer_data, match_threshold))
         < Len(_find_potential_matches_in_db(store, customer_data))

\* the sum of the six field scores
TotalScoreOf(customer1, customer2) ==
  RAdd(_check_document_match(customer1.documento, customer2.documento)[1],
  RAdd(_check_email_match(customer1.email, customer2.email),
  RAdd(_check_name_match(customer1.nome, customer2.nome)[1],
  RAdd(_check_phone_match(customer1.telefone, customer2.telefone)[1],
  RAdd(_check_birthdate_match(customer1.data_nascimento, customer2.data_nascimento)[1],
       _check_address_match(customer1.endereco, customer2.endereco))))))

\* the weights of all six scored fields that both records have a value for
WeightOfSharedFields(customer1, customer2) ==
  RAdd(total_weight(customer1, customer2),
       WeightIfBoth(customer1.data_nascimento, customer2.data_nascimento,
                    weights.data_nascimento))

\* C23: in calculate_match_score, when there is no document conflict, the
\* denominator totalWeight is the sum of the weights of every scored field
\* (documento, email, nome, telefone, data_nascimento, endereco) for which both
\* records have a value, including data_nascimento, and the final score is
\* totalScore / totalWeight (0.0 when totalWeight is 0), halved when more than
\* one field conflicts.
C23_DenominatorCountsBirthDate ==
  (/\ probe.kind = "match"
   /\ probe.done
   /\ _check_document_match(probe.a.documento, probe.b.documento)[2] = <<>>)
    => probe.out[1]
         = PenalizeConflicts(FinalScore(TotalScoreOf(probe.a, probe.b),
                                        WeightOfSharedFields(probe.a, probe.b)),
                             probe.out[2])

\* the last step was a call of add_customer_data
AddCalled == clock' = clock + 1 /\ ~ImportCalled(call')

\* the call refused the match: nothing written, the conflicts reported
RefusedOn(best_match) ==
  /\ result'.status = "conflict_detected"
  /\ result'.conflicts = best_match.conflicts
  /\ store' = store
  /\ history' = history

\* the call merged into the row of the match and touched no other row
MergedOn(best_match) ==
  /\ result'.status = "updated"
  /\ result'.customer_id = best_match.customer_id
  /\ Len(store') = Len(store)
  /\ \A i \in DOMAIN store : store[i].id # best_match.customer_id => store'[i] = store[i]
  /\ \A i \in DOMAIN history' : i > Len(history) => history'[i].customer_id = best_match.customer_id

DecidedOn(matches) ==
  matches # <<>>
    => IF ~matches[1].is_safe_match /\ ~call'.force_merge
         THEN RefusedOn(matches[1])
         ELSE MergedOn(matches[1])

\* C24: add_customer_data decides on the single highest-ranked match only
\* (index 0 of the sorted list): a merge always targets that record, and when
\* that record has conflicts and force_merge is false the call returns
\* conflict_detected even if a lower-ranked match without conflicts exists.
C24_DecidesOnBestMatchOnly ==
  [][AddCalled
       => DecidedOn(_find_matching_customers(store, call'.customer_data, match_threshold))]_vars

\* the best match has conflicts and a lower-ranked match has none
SafeBelowUnsafe(matches) ==
  /\ matches # <<>>
  /\ ~matches[1].is_safe_match
  /\ \E j \in DOMAIN matches : j > 1 /\ matches[j].is_safe_match

\* C24 happened: the last call was refused for the conflicts of its best match
\* (which left the store as it was) although a safe match ranked below it
C24_Witness ==
  /\ result.status = "conflict_detected"
  /\ ~call.force_merge
  /\ SafeBelowUnsafe(_find_matching_customers(store, call.customer_data, match_threshold))

\* the fields of row idx whose stored value the step changed
ChangedFields(idx) == {f \in Fields : store'[idx].data[f] # store[idx].data[f]}

\* the step appended exactly one history row for each changed field of row
\* idx, all of them rows of that customer, and for no other field
OneRowPerChangedField(idx, customer_id) ==
  /\ Len(history') = Len(history) + Cardinality(ChangedFields(idx))
  /\ SubSeq(history', 1, Len(history)) = history
  /\ \A f \in ChangedFields(idx) :
       \E i \in (Len(history) + 1)..Len(history') :
         history'[i].field = f /\ history'[i].customer_id = customer_id
  /\ result'.changes_made = Cardinality(ChangedFields(idx))

\* every conflicting field the incoming record has a value for now holds it
ConflictsOverwritten(idx, conflicts) ==
  \A f \in ConflictKeys(conflicts) :
    Present(call'.customer_data[f]) => store'[idx].data[f] = call'.customer_data[f]

ForcedInto(best_match) ==
  /\ result'.status = "updated"
  /\ result'.action = "forced_merge"
  /\ result'.customer_id = best_match.customer_id
  /\ result'.conflicts = best_match.conflicts
  /\ ConflictsOverwritten(RowOf(store, best_match.customer_id), best_match.conflicts)
  /\ OneRowPerChangedField(RowOf(store, best_match.customer_id), best_match.customer_id)

ForcedOn(matches) ==
  (matches # <<>> /\ ~matches[1].is_safe_match) => ForcedInto(matches[1])

\* C25: with force_merge=True and a best match that has conflicts,
\* add_customer_data merges into that record (status updated, action
\* forced_merge), overwrites every conflicting field for which the incoming
\* value is present, appends one history row per changed field, and reports
\* the conflicts in the result.
C25_ForcedMergeOverwrites ==
  [][(AddCalled /\ call'.force_merge)
       => ForcedOn(_find_matching_customers(store, call'.customer_data, match_threshold))]_vars

\* C25 happened: a forced merge replaced the stored name by the conflicting
\* incoming one and wrote history for it
C25_Witness ==
  /\ result.action = "forced_merge"
  /\ call.force_merge
  /\ "nome" \in ConflictKeys(result.conflicts)
  /\ result.changes_made >= 1
  /\ store[RowOf(store, result.customer_id)].data.nome = call.customer_data.nome
  /\ history[Len(history)].customer_id = result.customer_id

\* the digits of the document of a stored row
DocumentOf(customer_model) == normalize_document(customer_model.data.documento)

\* C26: with match_threshold greater than 0, once a stored customer has a
\* document that is non-empty after normalization, no sequence of
\* add_customer_data calls (force_merge true or false) changes that customer's
\* normalized document: a record with a different normalized document never
\* merges into it.
C26_DocumentNeverChanges ==
  [][\A i \in DOMAIN store :
       (RLess(Zero, match_threshold) /\ DocumentOf(store[i]) # <<>>)
         => DocumentOf(store'[i]) = DocumentOf(store[i])]_vars

\* the incoming record carries digits other than those of the stored row
OtherDigits(customer_model, customer_data) ==
  /\ DocumentOf(customer_model) # <<>>
  /\ normalize_document(customer_data.documento) # <<>>
  /\ normalize_document(customer_data.documento) # DocumentOf(customer_model)

\* C26 as the code has it: with match_threshold greater than 0, a record whose
\* document has digits never merges into a stored customer whose document has
\* other digits, and a stored customer's digits change only by a merge of a
\* record whose document has no digit at all, which empties them.
C26_OtherDigitsNeverMerge ==
  [][\A i \in DOMAIN store :
       (RLess(Zero, match_threshold) /\ DocumentOf(store[i]) # <<>>)
         => /\ (AddCalled /\ OtherDigits(store[i], call'.customer_data))
                 => store'[i] = store[i]
            /\ DocumentOf(store'[i]) # DocumentOf(store[i])
                 => /\ AddCalled
                    /\ Truthy(call'.customer_data.documento)
                    /\ normalize_document(call'.customer_data.documento) = <<>>
                    /\ DocumentOf(store'[i]) = <<>>]_vars

\* C26 happened: under a threshold above 0 a forced call carrying other digits
\* found a stored customer by its email, did not merge into it and was stored
\* as a customer of its own
C26_Witness ==
  /\ RLess(Zero, match_threshold)
  /\ ~ImportCalled(call) /\ ~ThresholdCalled(call)
  /\ call.force_merge
  /\ result.status = "created"
  /\ \E i \in DOMAIN store :
       /\ store[i].id # result.customer_id
       /\ store[i].data.email = call.customer_data.email
       /\ OtherDigits(store[i], call.customer_data)

\* the places in hist of the entries of one field of one customer
FieldEntries(hist, customer_id, field) ==
  {i \in DOMAIN hist : hist[i].customer_id = customer_id /\ hist[i].field = field}

\* entry j is the one that follows entry i among the places E
Follows(E, i, j) == i < j /\ ~\E k \in E : i < k /\ k < j

\* the current value is the new_value of the latest entry, and every entry
\* after the first starts from the new_value of the entry before it
Chained(customer_model, field, E) ==
  E # {} =>
    /\ \E i \in E : /\ \A k \in E : k <= i
                    /\ customer_model.data[field] = history[i].new_value
    /\ \A i, j \in E : Follows(E, i, j) => history[j].old_value = history[i].new_value

HistoryChained ==
  \A r \in DOMAIN store : \A field \in Fields :
    Chained(store[r], field, FieldEntries(history, store[r].id, field))

\* the entries the step added that are the first of their customer and field
FirstEntries ==
  {i \in DOMAIN history' :
     /\ i > Len(history)
     /\ \A k \in FieldEntries(history', history'[i].customer_id, history'[i].field) : i <= k}

\* the value a customer was created with: its value before its first entry
CreatedWith(i) == store[RowOf(store, history'[i].customer_id)].data[history'[i].field]

\* C27: after any sequential run of add_customer_data calls, for every
\* customer and every field with at least one history entry, the customer's
\* current value of that field equals the new_value of the latest history
\* entry for that field, and each entry's old_value equals the new_value of
\* the previous entry for the same field (or the value at creation when it is
\* the first).
C27_HistoryChain ==
  /\ []HistoryChained
  /\ [][\A i \in FirstEntries : history'[i].old_value = CreatedWith(i)]_vars

\* the only key field of the record is a document written with punctuation
OnlyPunctuatedDocument(customer_data) ==
  /\ Truthy(customer_data.documento)
  /\ normalize_document(customer_data.documento) # <<>>
  /\ normalize_document(customer_data.documento) # customer_data.documento
  /\ customer_data.email = None
  /\ customer_data.nome = None
  /\ customer_data.telefone = None

\* the step is a second call with the record the call before it created a
\* customer from
Resubmitted ==
  /\ AddCalled
  /\ "customer_data" \in DOMAIN call
  /\ result.status = "created"
  /\ call'.customer_data = call.customer_data

\* C28: re-submitting a record does not duplicate it: after add_customer_data
\* creates a customer from a record whose only key field is a document written
\* with punctuation, a second add_customer_data with the identical record
\* finds that customer as a candidate and returns updated, so the store still
\* holds exactly one customer with that document.
C28_ResubmitFindsPunctuatedDocument ==
  [][(Resubmitted /\ OnlyPunctuatedDocument(call.customer_data))
       => /\ result'.status = "updated"
          /\ Len(store') = Len(store)]_vars

\* a store that holds the one customer created from the record
StoreOf(customer_data) == CreateNew(<<>>, <<>>, customer_data, "crm", 1).store

AtMostOneConflict(matches) == \A i \in DOMAIN matches : Len(matches[i].conflicts) <= 1

\* C29: at the default match threshold 0.7 and default weights, every
\* MatchResult returned by _find_matching_customers has at most one
\* conflicting field: a candidate with two or more field conflicts has its
\* score halved and never reaches the threshold, so it is never merged, not
\* even with force_merge=True (checked with the second record of the pair as
\* the one stored customer and the first as the incoming record).
C29_TwoConflictsNeverMatch ==
  (probe.kind = "match" /\ probe.done)
    => /\ AtMostOneConflict(
            _find_matching_customers(StoreOf(probe.b), probe.a, MATCH_THRESHOLD))
       /\ Len(probe.out[2]) > 1
            => /\ RLess(probe.out[1], MATCH_THRESHOLD)
               /\ add_customer_data(StoreOf(probe.b), <<>>, MATCH_THRESHOLD, 2,
                                    probe.a, "crm", TRUE).result.status = "created"

\* C29 happened: a stored customer the lookup finds for the incoming record
\* conflicts with it in two fields, and its score, at or above the threshold
\* before the halving, is below it after
C29_Witness ==
  /\ probe.kind = "match" /\ probe.done
  /\ Len(probe.out[2]) = 2
  /\ _find_potential_matches_in_db(StoreOf(probe.b), probe.a) # <<>>
  /\ RLeq(MATCH_THRESHOLD, RMul(probe.out[1], <<2, 1>>))
  /\ RLess(probe.out[1], MATCH_THRESHOLD)

\* the counters add up to n and there is one detail per row, in list order
Counted(res, n) ==
  /\ res.total_processed = n
  /\ res.created + res.updated + res.conflicts + res.errors = n
  /\ Len(res.details) = n
  /\ \A i \in 1..n : res.details[i].row = i
  /\ res.errors = Cardinality({i \in 1..n : res.details[i].status = "error"})

\* a row that failed is an error, and every other row was added whatever
\* happened to the rows before it
FailuresIsolated(res, failures) ==
  \A i \in DOMAIN failures :
    /\ failures[i] \in {"lookup", "callback"} => res.details[i].status = "error"
    /\ failures[i] = "none"
         => res.details[i].status \in {"created", "updated", "conflict_detected"}

\* C30: for every input list, execute_import processes the records one by one
\* in list order and returns counters with total_processed = created + updated
\* + conflicts + errors = number of input records and exactly one detail entry
\* per record; a failure on one record (error status or raised exception) is
\* counted as an error and does not stop the records after it.
C30_ImportCountsEveryRow ==
  [][/\ Counted(import_result', Len(call'.customers))
     /\ FailuresIsolated(import_result', call'.failures)
     /\ clock' = clock + Len(call'.customers)]_vars

\* C30 happened: of three rows the first raised, the second came back with
\* status error and the third was stored
C30_Witness ==
  /\ ImportCalled(call)
  /\ Len(call.customers) = 3
  /\ call.failures[1] = "callback"
  /\ call.failures[2] \in Failures
  /\ import_result.details[2].status = "error"
  /\ import_result.details[3].status = "created"
  /\ import_result.errors = 2
  /\ Len(store) = 1

====
